---- MODULE Spec2Model ----
(***************************************************************************)
(* xml-pretty (src/src/main.rs): the command-line driver that discovers    *)
(* XML documents, hands each to xmlem's pretty printer and routes the      *)
(* rendered text to a file or to standard output.                          *)
(*                                                                         *)
(* Paths are sequences of file names; a file name is a sequence of tokens  *)
(* in which "." is the dot character, so that Path::extension is computed  *)
(* rather than assumed.  Texts are sequences of tokens in which "\n" and   *)
(* "\r" are the line-feed and carriage-return characters.  Option<T> is a  *)
(* set with at most one element.                                           *)
(***************************************************************************)
EXTENDS Naturals, Sequences, FiniteSets, TLC

VARIABLES
    args,         \* struct Args, as parsed from the command line
    stdin_tty,    \* atty::is(atty::Stream::Stdin)
    windows,      \* the platform the program was built for (cfg(windows))
    unreadable,   \* directories on which fs::read_dir fails
    unopenable,   \* files on which File::open fails
    files0,       \* content of every file before the run
    files,        \* content of every file the run can read or write
    stdout,       \* what println! has sent to standard output, in order
    pc,           \* position in main
    input_path,   \* main's input_path
    find_result,  \* the Result that find_xml_files returned
    input_list,   \* main's input_list
    idx,          \* position of the for loop in input_list
    file_path,    \* the loop variable file_path
    text,         \* the loop's text (the rendered document)
    config,       \* the display::Config of every call of the renderer, in order
    log,          \* every output the loop performed, in order
    result        \* what main returned

vars == <<args, stdin_tty, windows, unreadable, unopenable, files0, files, stdout, pc,
          input_path, find_result, input_list, idx, file_path, text, config,
          log, result>>

(***************************************************************************)
(* Option<T>                                                               *)
(***************************************************************************)
None == {}

Some(v) == {v}

unwrap(o) == CHOOSE v \in o : TRUE

unwrap_or_zero_is_default(o, d) == IF o = None \/ o = Some(0) THEN d ELSE unwrap(o)

unwrap_or(o, d) == IF o = None THEN d ELSE unwrap(o)

(***************************************************************************)
(* The file system the program runs on.                                    *)
(***************************************************************************)
ROOT == <<"d">>

A_XML == <<"a", ".", "xml">>

SUB == <<"sub">>

C_XML == <<"c", ".", "bak", ".", "xml">>

DOT_XML == <<".", "xml">>

E_XML == <<"e", ".", "xml">>

F_UPPER == <<"f", ".", "XML">>

S_XML == <<"s", ".", "xml">>

NOTES == <<"notes", ".", "txt">>

MISSING == <<"missing", ".", "xml">>

OUT == <<"out", ".", "txt">>

PathA == <<ROOT, A_XML>>

PathC == <<ROOT, SUB, C_XML>>

Dirs == {<<ROOT>>, <<ROOT, SUB>>, <<ROOT, E_XML>>}

RegularFiles ==
    {PathA, PathC, <<ROOT, SUB, DOT_XML>>, <<ROOT, E_XML, F_UPPER>>, <<NOTES>>}

\* neither a regular file nor a directory: a socket, a dangling symlink
Others == {<<ROOT, E_XML, S_XML>>}

Entries == Dirs \cup RegularFiles \cup Others

is_dir(path) == path \in Dirs

is_file(path) == path \in RegularFiles

Children(dir) ==
    {p[Len(p)] : p \in {q \in Entries : Len(q) = Len(dir) + 1
                                         /\ SubSeq(q, 1, Len(dir)) = dir}}

Perms(S) ==
    {s \in [1..Cardinality(S) -> S] : \A i, j \in 1..Cardinality(S) :
                                          s[i] = s[j] => i = j}

\* fs::read_dir yields the entries of a directory in an order the platform
\* chooses: every order, per directory.
ReadDirOrders ==
    {[d \in Dirs |-> IF d = <<ROOT>> THEN r ELSE IF d = <<ROOT, SUB>> THEN s ELSE e] :
        r \in Perms(Children(<<ROOT>>)),
        s \in Perms(Children(<<ROOT, SUB>>)),
        e \in Perms(Children(<<ROOT, E_XML>>))}

(***************************************************************************)
(* Path::extension                                                         *)
(***************************************************************************)
file_name(path) == path[Len(path)]

Dots(name) == {i \in 1..Len(name) : name[i] = "."}

LastDot(name) == CHOOSE i \in Dots(name) : \A j \in Dots(name) : j <= i

extension_ignoring_case(path) ==
    LET name == file_name(path) IN
    IF Dots(name) = {} \/ name = <<".", ".">> \/ LastDot(name) = 1
    THEN None
    ELSE LET after == SubSeq(name, LastDot(name) + 1, Len(name)) IN
         Some(IF after = <<"XML">> THEN <<"xml">> ELSE after)

extension(path) ==
    LET name == file_name(path) IN
    IF Dots(name) = {} \/ name = <<".", ".">> \/ LastDot(name) = 1
    THEN None
    ELSE Some(SubSeq(name, LastDot(name) + 1, Len(name)))

is_xml(path) == is_file(path) /\ extension(path) = Some(<<"xml">>)

(***************************************************************************)
(* find_xml_files.  A result is [ok, files]: Ok(files), or Err, where      *)
(* files then holds the Vec the failing call had collected and dropped.    *)
(***************************************************************************)
Ok(fs) == [ok |-> TRUE, files |-> fs]

Err(dropped) == [ok |-> FALSE, files |-> dropped]

RECURSIVE scan_entries(_, _, _, _, _)

find_xml_files_recursive(directory, bad, order) ==
    IF directory \in bad
    THEN Err(<<>>)
    ELSE scan_entries(directory, order[directory], <<>>, bad, order)

\* the for loop of find_xml_files_recursive over the entries still to visit
scan_entries(directory, entries, xml_files, bad, order) ==
    IF entries = <<>>
    THEN Ok(xml_files)
    ELSE LET path == Append(directory, Head(entries)) IN
         IF is_xml(path)
         THEN scan_entries(directory, Tail(entries), Append(xml_files, path),
                           bad, order)
         ELSE IF is_dir(path)
         THEN LET sub == find_xml_files_recursive(path, bad, order) IN
              IF sub.ok
              THEN scan_entries(directory, Tail(entries),
                                xml_files \o sub.files, bad, order)
              ELSE Err(xml_files \o sub.files)
         ELSE scan_entries(directory, Tail(entries), xml_files, bad, order)

find_xml_files(path_opt, bad, order) ==
    IF path_opt # None
    THEN LET path == unwrap(path_opt) IN
         IF is_dir(path)
         THEN find_xml_files_recursive(path, bad, order)
         ELSE IF is_xml(path)
         THEN Ok(<<path>>)
         ELSE Err(<<>>)
    ELSE Err(<<>>)

\* main, the match on find_xml_files' result
input_list_keeping_partial(found) == found.files

input_list_of(found) == IF found.ok THEN found.files ELSE <<>>

(***************************************************************************)
(* Documents.  xmlem (Document::from_file, to_string_pretty_with_config)   *)
(* is an external crate: a file holds the bytes of a well-formed document, *)
(* malformed bytes, or a text this run wrote earlier, which xmlem may      *)
(* reject or read as a document.                                           *)
(***************************************************************************)
Docs == {"doc1", "doc2"}

Raw(doc) == <<"bytes of", doc>>

Malformed == <<"malformed bytes">>

Absent == <<"no such file">>

\* Document::from_file: the possible results, None for Err
from_file(content) ==
    IF \E d \in Docs : content = Raw(d)
    THEN {Some(d) : d \in {e \in Docs : content = Raw(e)}}
    ELSE IF content = Malformed
    THEN {None}
    ELSE {None} \cup {Some(d) : d \in Docs}

\* Document::to_string_pretty_with_config: lines ended by "\n"
to_string_pretty_with_config(doc, cfg) ==
    IF doc = "doc1" THEN <<"<a>", "\n", "</a>", "\n">> ELSE <<"<c />">>

DefaultIndent == 2

DefaultEndPad == 1

DefaultMaxLineLength == 120

display_Config(indent, end_pad, max_line_length, uses_hex_entities, indent_text_nodes) ==
    [is_pretty |-> TRUE,
     indent |-> unwrap_or(indent, DefaultIndent),
     end_pad |-> unwrap_or(end_pad, DefaultEndPad),
     max_line_length |-> unwrap_or(max_line_length, DefaultMaxLineLength),
     entity_mode |-> IF uses_hex_entities THEN "Hex" ELSE "Standard",
     indent_text_nodes |-> indent_text_nodes]

\* str::replace(from, to) on a text
RECURSIVE replace(_, _, _)
replace(s, from, to) ==
    IF s = <<>>
    THEN <<>>
    ELSE (IF Head(s) = from THEN to ELSE <<Head(s)>>) \o replace(Tail(s), from, to)

text_with_crlf_of(t) == replace(t, "\n", <<"\r", "\n">>)

\* the line ending of the platform, as the commented-out LINE_ENDING had it
LINE_ENDING(is_windows) == IF is_windows THEN <<"\r", "\n">> ELSE <<"\n">>

\* prettify: the configuration built from the options, and the rendering
prettify(doc, a) ==
    to_string_pretty_with_config(
        doc,
        display_Config(a.indent, a.end_pad, a.max_line_length,
                       a.uses_hex_entities, ~a.is_no_text_indent))

\* prettify_file: the possible results, None for Err
prettify_file_or_default(path, closed, content, a) ==
    IF path \in closed
    THEN {Some(<<>>)}
    ELSE {IF doc = None THEN Some(<<>>) ELSE Some(prettify(unwrap(doc), a)) :
            doc \in from_file(content)}

prettify_file(path, closed, content, a) ==
    IF path \in closed
    THEN {None}
    ELSE {IF doc = None THEN None ELSE Some(prettify(unwrap(doc), a)) :
            doc \in from_file(content)}

\* fs::write: the file holds the contents and nothing else
fs_write_append(fsys, path, contents) ==
    [fsys EXCEPT ![path] = (IF @ = Absent THEN <<>> ELSE @) \o contents]

fs_write(fsys, path, contents) == [fsys EXCEPT ![path] = contents]

\* main, the choice of the destination of one document
output_path_output_first(a, path) ==
    IF a.output_path # None THEN a.output_path ELSE
    IF a.is_replace THEN Some(path) ELSE None

output_path_of(a, path) ==
    IF a.is_replace THEN Some(path) ELSE a.output_path

(***************************************************************************)
(* The run of main.                                                        *)
(***************************************************************************)
MaxArg == 3

ArgValues == {0, MaxArg}

OptionOf(S) == {None} \cup {Some(v) : v \in S}

FilePaths == RegularFiles \cup {<<OUT>>}

\* the command lines on which the paths and flags vary
PathArgs ==
    [xml_document_path : OptionOf({<<ROOT>>, PathA, <<NOTES>>, <<MISSING>>}),
     output_path : OptionOf({<<OUT>>, PathC}),
     is_replace : BOOLEAN,
     indent : {None},
     end_pad : {Some(0)},
     max_line_length : {Some(MaxArg)},
     uses_hex_entities : {FALSE},
     is_no_text_indent : {FALSE}]

\* the command lines on which the layout options vary
LayoutArgs ==
    [xml_document_path : {Some(<<ROOT>>)},
     output_path : OptionOf({<<OUT>>}),
     is_replace : {FALSE},
     indent : OptionOf(ArgValues),
     end_pad : OptionOf(ArgValues),
     max_line_length : OptionOf(ArgValues),
     uses_hex_entities : BOOLEAN,
     is_no_text_indent : BOOLEAN]

Init ==
    /\ \/ /\ args \in PathArgs
          /\ stdin_tty \in BOOLEAN
          /\ windows \in BOOLEAN
          /\ unreadable \in {{}, {<<ROOT>>}, {<<ROOT, SUB>>}, {<<ROOT, E_XML>>}}
          /\ unopenable \in {{}, {PathA}, {PathC}}
       \/ /\ args \in LayoutArgs
          /\ stdin_tty = TRUE
          /\ windows = FALSE
          /\ unreadable = {}
          /\ unopenable = {}
    /\ \E a \in {Raw("doc1"), Malformed}, c \in {Raw("doc2"), Malformed} :
         files = [p \in FilePaths |->
                    IF p = PathA THEN a
                    ELSE IF p = PathC THEN c
                    ELSE IF p = <<OUT>> THEN Absent
                    ELSE Malformed]
    /\ files0 = files
    /\ stdout = <<>>
    /\ pc = "start"
    /\ input_path = None
    /\ find_result = Ok(<<>>)
    /\ input_list = <<>>
    /\ idx = 1
    /\ file_path = None
    /\ text = <<>>
    /\ config = <<>>
    /\ log = <<>>
    /\ result = "running"

\* main, lines 59-67: the input path, or the early return
ResolveInput ==
    /\ pc = "start"
    /\ IF args.xml_document_path # None
       THEN /\ input_path' = args.xml_document_path
            /\ pc' = "find"
            /\ UNCHANGED result
       ELSE IF stdin_tty
       THEN /\ result' = "Ok"
            /\ pc' = "done"
            /\ UNCHANGED input_path
       ELSE /\ input_path' = None
            /\ pc' = "find"
            /\ UNCHANGED result
    /\ UNCHANGED <<args, stdin_tty, windows, unreadable, unopenable, files0, files, stdout,
                   find_result, input_list, idx, file_path, text, config, log>>

\* main, lines 69-75: find_xml_files and the match on its result
FindFiles ==
    /\ pc = "find"
    /\ \E order \in ReadDirOrders :
         /\ find_result' = find_xml_files(input_path, unreadable, order)
         /\ input_list' = input_list_of(find_result')
    /\ pc' = "loop"
    /\ UNCHANGED <<args, stdin_tty, windows, unreadable, unopenable, files0, files, stdout,
                   input_path, idx, file_path, text, config, log, result>>

\* main, lines 77-86: prettify_file on the next path, `?` on its result
PrettifyFile ==
    /\ pc = "loop"
    /\ idx <= Len(input_list)
    /\ file_path' = Some(input_list[idx])
    /\ \E rendered \in prettify_file(input_list[idx], unopenable,
                                     files[input_list[idx]], args) :
         IF rendered = None
         THEN /\ result' = "Err"
              /\ pc' = "done"
              /\ UNCHANGED <<text, config>>
         ELSE /\ text' = unwrap(rendered)
              /\ config' = Append(config,
                                  display_Config(args.indent, args.end_pad,
                                                 args.max_line_length,
                                                 args.uses_hex_entities,
                                                 ~args.is_no_text_indent))
              /\ pc' = "output"
              /\ UNCHANGED result
    /\ UNCHANGED <<args, stdin_tty, windows, unreadable, unopenable, files0, files, stdout,
                   input_path, find_result, input_list, idx, log>>

\* main, lines 88-101: the destination, the line endings, write or println!
WriteOutput ==
    /\ pc = "output"
    /\ LET output_path == output_path_of(args, unwrap(file_path))
           text_with_crlf == text_with_crlf_of(text)
           entry == [src |-> unwrap(file_path), dest |-> output_path,
                     rendered |-> text, written |-> text_with_crlf]
       IN IF output_path # None
          THEN \E written \in BOOLEAN :
                 IF written
                 THEN /\ files' = fs_write(files, unwrap(output_path), text_with_crlf)
                      /\ log' = Append(log, entry)
                      /\ idx' = idx + 1
                      /\ pc' = "loop"
                      /\ UNCHANGED <<stdout, result>>
                 ELSE /\ result' = "Err"
                      /\ pc' = "done"
                      /\ UNCHANGED <<files, stdout, log, idx>>
          ELSE /\ stdout' = Append(stdout, text_with_crlf \o <<"\n">>)
               /\ log' = Append(log, entry)
               /\ idx' = idx + 1
               /\ pc' = "loop"
               /\ UNCHANGED <<files, result>>
    /\ UNCHANGED <<args, stdin_tty, windows, unreadable, unopenable, files0, input_path,
                   find_result, input_list, file_path, text, config>>

\* main, lines 102-104: the loop is over
Finish ==
    /\ pc = "loop"
    /\ idx > Len(input_list)
    /\ result' = "Ok"
    /\ pc' = "done"
    /\ UNCHANGED <<args, stdin_tty, windows, unreadable, unopenable, files0, files, stdout,
                   input_path, find_result, input_list, idx, file_path, text,
                   config, log>>

Next == ResolveInput \/ FindFiles \/ PrettifyFile \/ WriteOutput \/ Finish

Spec == Init /\ [][Next]_vars

(***************************************************************************)
(* Vocabulary of the properties.                                           *)
(***************************************************************************)
Sources == {log[k].src : k \in 1..Len(log)}

\* prettify_file fails on p for sure: it cannot be opened, or is malformed
Fails(p) == p \in unopenable \/ files[p] = Malformed

\* prettify_file succeeds on p for sure
Parses(p) == p \notin unopenable /\ \E d \in Docs : files[p] = Raw(d)

\* the run ended in a failed fs::write: a text was rendered and not put out
WriteFailed == pc = "done" /\ Len(config) > Len(log)

\* the name ends in ".xml" and has something before the dot
EndsInDotXml(p) ==
    LET name == p[Len(p)] IN
    /\ Len(name) >= 3
    /\ name[Len(name)] = "xml"
    /\ name[Len(name) - 1] = "."

Under(dir) == {p \in Entries : Len(p) > Len(dir) /\ SubSeq(p, 1, Len(dir)) = dir}

\* the document and the rendering of a file as it was before the run
Rendering0(p) ==
    text_with_crlf_of(prettify(CHOOSE d \in Docs : files0[p] = Raw(d), args))

(***************************************************************************)
(* C1: in a batch, a document that fails to parse does not keep the other  *)
(* documents from being written: when main has returned without a failed   *)
(* open or write, every document of the list that parses has been written. *)
(* The code returns from main at the first failure (`?`, line 86).         *)
(***************************************************************************)
C1_ParseFailureSparesTheBatch ==
    (pc = "done" /\ unopenable = {} /\ ~WriteFailed)
        => \A i \in 1..Len(input_list) :
             Parses(input_list[i]) => input_list[i] \in Sources

(***************************************************************************)
(* C4: every configuration handed to the renderer has the supplied indent, *)
(* end_pad and max_line_length, 0 included, or 2, 1 and 120 where none was *)
(* supplied, and all documents of a batch get the same configuration.      *)
(***************************************************************************)
C4_ConfigDefaults ==
    \A k \in 1..Len(config) :
        /\ args.indent = None => config[k].indent = 2
        /\ args.end_pad = None => config[k].end_pad = 1
        /\ args.max_line_length = None => config[k].max_line_length = 120
        /\ \A v \in 0..MaxArg :
             /\ args.indent = {v} => config[k].indent = v
             /\ args.end_pad = {v} => config[k].end_pad = v
             /\ args.max_line_length = {v} => config[k].max_line_length = v
        /\ config[k] = config[1]

C4_Witness ==
    /\ pc = "done"
    /\ Len(config) = 2
    /\ args.indent = {0}
    /\ args.end_pad = None
    /\ args.max_line_length = {MaxArg}

(***************************************************************************)
(* C5: on a directory, find_xml_files returns each regular file below it,  *)
(* at any depth, whose extension is xml, once, and nothing else.           *)
(***************************************************************************)
C5_DiscoveryExact ==
    (input_path = {<<ROOT>>} /\ pc \in {"loop", "output", "done"} /\ find_result.ok)
        => /\ {find_result.files[i] : i \in 1..Len(find_result.files)}
                = {p \in Under(<<ROOT>>) : p \in RegularFiles /\ EndsInDotXml(p)}
           /\ \A i, j \in 1..Len(find_result.files) :
                find_result.files[i] = find_result.files[j] => i = j

C5_Witness ==
    /\ input_path = {<<ROOT>>}
    /\ pc = "loop"
    /\ find_result.ok
    /\ Len(find_result.files) = 2
    /\ find_result.files[1] = PathC

(***************************************************************************)
(* C6: what is put out is the rendered text with each "\n" replaced by the *)
(* line ending of the platform the program runs on.  The code replaces     *)
(* "\n" by "\r\n" on every platform (line 94).                             *)
(***************************************************************************)
C6_PlatformLineEnding ==
    \A k \in 1..Len(log) :
        log[k].written = replace(log[k].rendered, "\n", LINE_ENDING(windows))

(***************************************************************************)
(* C7: a document that fails to open or parse puts nothing out and main    *)
(* returns an error; with the replace flag its file is left as it was.     *)
(***************************************************************************)
C7_FailedDocumentUntouched ==
    /\ \A p \in FilePaths : Fails(p) => p \notin Sources
    /\ \A p \in FilePaths :
         (args.is_replace /\ (p \in unopenable \/ files0[p] = Malformed))
             => files[p] = files0[p]
    /\ (pc = "done" /\ file_path # None /\ Fails(unwrap(file_path)))
           => result = "Err"
    /\ Len(stdout) = Cardinality({k \in 1..Len(log) : log[k].dest = None})

C7_Witness ==
    /\ pc = "done"
    /\ result = "Err"
    /\ args.is_replace
    /\ file_path = {PathC}
    /\ files[PathC] = Malformed
    /\ files[PathA] # files0[PathA]

(***************************************************************************)
(* C8: each rendered document goes to one destination: its own path when   *)
(* the replace flag is set, else the output path when one was given, else  *)
(* standard output; no other file changes.                                 *)
(***************************************************************************)
C8_OneDestination ==
    /\ \A k \in 1..Len(log) :
         log[k].dest = (IF args.is_replace THEN {log[k].src}
                        ELSE IF args.output_path # None THEN args.output_path
                        ELSE None)
    /\ \A p \in FilePaths :
         LET to_p == {k \in 1..Len(log) : log[k].dest = {p}} IN
         IF to_p = {}
         THEN files[p] = files0[p]
         ELSE files[p] = log[CHOOSE k \in to_p : \A j \in to_p : j <= k].written
    /\ Len(stdout) = Cardinality({k \in 1..Len(log) : log[k].dest = None})

C8_Witness ==
    /\ args.is_replace
    /\ args.output_path = {<<OUT>>}
    /\ Len(log) = 2
    /\ files[PathA] # files0[PathA]
    /\ files[PathC] # files0[PathC]

(***************************************************************************)
(* C9: on a directory, with an output path and without the replace flag,   *)
(* every document is written to the output path in discovery order, so     *)
(* that after a run that returned Ok the output file holds the rendering   *)
(* of the last document only.                                              *)
(***************************************************************************)
C9_LastDocumentWins ==
    (/\ pc = "done"
     /\ result = "Ok"
     /\ args.xml_document_path = {<<ROOT>>}
     /\ ~args.is_replace
     /\ args.output_path # None
     /\ input_list # <<>>)
        => LET out == unwrap(args.output_path)
               last == input_list[Len(input_list)]
           IN /\ Len(log) = Len(input_list)
              /\ \A k \in 1..Len(log) :
                   log[k].src = input_list[k] /\ log[k].dest = {out}
              /\ files[out] = log[Len(log)].written
              /\ out \notin {input_list[i] : i \in 1..Len(input_list)}
                   => files[out] = Rendering0(last)
              /\ \A p \in FilePaths \ {out} : files[p] = files0[p]

C9_Witness ==
    /\ pc = "done"
    /\ result = "Ok"
    /\ args.xml_document_path = {<<ROOT>>}
    /\ ~args.is_replace
    /\ args.output_path = {<<OUT>>}
    /\ input_list = <<PathA, PathC>>
    /\ files[<<OUT>>] = Rendering0(PathC)
    /\ files[<<OUT>>] # Rendering0(PathA)

(***************************************************************************)
(* C10: find_xml_files returns an error when the path is neither a         *)
(* directory nor a regular xml file, when there is no path, and when a     *)
(* directory read fails; main then processes nothing, writes nothing,      *)
(* drops the files found before the error and returns Ok.                  *)
(***************************************************************************)
C10_FindErrorIsSwallowed ==
    /\ (/\ pc \in {"loop", "output", "done"}
        /\ \/ input_path = None /\ ~stdin_tty
           \/ input_path = {<<NOTES>>}
           \/ input_path = {<<MISSING>>}
           \/ input_path = {<<ROOT>>} /\ unreadable # {})
           => ~find_result.ok
    /\ ~find_result.ok
           => /\ input_list = <<>>
              /\ config = <<>>
              /\ log = <<>>
              /\ stdout = <<>>
              /\ files = files0
              /\ result # "Err"
              /\ pc = "done" => result = "Ok"

C10_Witness ==
    /\ pc = "done"
    /\ ~find_result.ok
    /\ find_result.files = <<PathA>>
    /\ unreadable = {<<ROOT, SUB>>}

====
